---- MODULE Spec2Model ----
(***************************************************************************)
(* A model of the autodocument aggregation core: the directory crawler     *)
(* (src/src/crawler/index.ts), the file analyzer (FileAnalyzer, found in   *)
(* src/src/tools/testplan-tool.ts from line 201 on), the auto-* tools      *)
(* (src/src/tools/review-tool.ts and its siblings), the tool aggregator    *)
(* (src/build/tools/aggregator.js) and the server's tool-call handler      *)
(* (src/build/index.js).                                                   *)
(*                                                                         *)
(* Paths.  A directory is a number (1 is the root the crawler was given);  *)
(* a file path is the pair <<directory, file record>>.  Strings that the   *)
(* code builds by concatenation are sequences of chunks, so that "contains *)
(* verbatim" and "is empty" mean what they mean for JavaScript strings.    *)
(***************************************************************************)
EXTENDS Integers, Sequences, FiniteSets, TLC

VARIABLES
    fs,           \* the file system layout the run works on (never written)
    disk,         \* the markdown files the run reads and writes, per directory
    call,         \* how the run was started: tool, update policy, request argument
    pc,           \* position of the handler / of ToolAggregator.run
    directories,  \* run: const directories = await crawler.createBottomUpOrder()
    i,            \* run: the loop index (0-based, as in the code)
    result,       \* run: the AggregationResult being accumulated
    req,          \* run: the generation request the loop is awaiting
    log,          \* history of what the run did, in order (progress, outcomes)
    an            \* analyzer harness: the input given and the AnalysisResult

vars == <<fs, disk, call, pc, directories, i, result, req, log, an>>

(***************************************************************************)
(* Bounds of the model.                                                    *)
(***************************************************************************)
\* directories in a tree given to createBottomUpOrder alone
MaxTreeDirs == 4
\* directories in a tree given to a whole run
MaxDirs == 3
\* candidate files handed to analyzeFiles / shouldDocument
MaxFiles == 4
\* MAX_FILES_PER_DIR of the modelled configuration (the shipped default is 10)
maxFilesPerDirectory == 2
\* MAX_FILE_SIZE_KB of the modelled configuration (the shipped default is 100)
maxFileSizeKb == 10

(***************************************************************************)
(* Configuration (src/config.ts, found in src/unnamed/part_008).           *)
(***************************************************************************)
codeExtensions ==
    {".ts", ".js", ".tsx", ".jsx", ".py", ".java", ".c", ".cpp", ".cs",
     ".php", ".rb", ".go", ".rs"}

\* config.documentation of defaultConfig
documentationConfig ==
    [outputFilename |-> "documentation.md",
     fallbackFilename |-> "undocumented.md",
     updateExisting |-> TRUE]

\* String.prototype.toLowerCase on the extensions the model uses
toLowerCase(s) ==
    CASE s = ".TS" -> ".ts"
      [] s = ".MD" -> ".md"
      [] OTHER -> s

(***************************************************************************)
(* Files.  size is what statSync reports, content what readFile returns;   *)
(* statOk / readOk say whether those calls succeed.                        *)
(***************************************************************************)
File(name, ext, size, content) ==
    [name |-> name, ext |-> ext, size |-> size, content |-> content,
     hidden |-> FALSE, ignored |-> FALSE, statOk |-> TRUE, readOk |-> TRUE]

maxFileSize == maxFileSizeKb * 1024

fileA == File("a.ts", ".ts", 50, <<"code of a.ts">>)
fileB == File("b.ts", ".ts", 30, <<"code of b.ts">>)
fileC == File("C.TS", ".TS", maxFileSize, <<"code of C.TS">>)
fileD == File("d.ts", ".ts", maxFileSize, <<"code of d.ts">>)
fileBig == File("big.py", ".py", maxFileSize + 1, <<"code of big.py">>)
fileEmpty == File("empty.js", ".js", 0, <<>>)
fileMd == File("README.md", ".md", 40, <<"text of README.md">>)
fileMdUpper == File("NOTES.MD", ".MD", 40, <<"text of NOTES.MD">>)
fileTxt == File("notes.txt", ".txt", 20, <<"text of notes.txt">>)
fileHidden == [File(".hidden.ts", ".ts", 10, <<"code of .hidden.ts">>) EXCEPT !.hidden = TRUE]
fileIgnored == [File("ignored.ts", ".ts", 10, <<"code of ignored.ts">>) EXCEPT !.ignored = TRUE]
fileNoRead == [File("locked.ts", ".ts", 10, <<"code of locked.ts">>) EXCEPT !.readOk = FALSE]
fileNoStat == [File("gone.ts", ".ts", 10, <<"code of gone.ts">>) EXCEPT !.statOk = FALSE]
fileBigNoRead ==
    [File("biglocked.ts", ".ts", maxFileSize + 1, <<"code of biglocked.ts">>)
        EXCEPT !.readOk = FALSE]
\* the k-th of a family of code files of 9KB each
nineKbName(k) ==
    CASE k = 1 -> "nine1.ts"
      [] k = 2 -> "nine2.ts"
      [] k = 3 -> "nine3.ts"
      [] k = 4 -> "nine4.ts"
      [] k = 5 -> "nine5.ts"
      [] k = 6 -> "nine6.ts"
nineKb(k) == File(nineKbName(k), ".ts", 9 * 1024, <<"code of ", nineKbName(k)>>)

\* path.extname(file).toLowerCase()
extname(path) == toLowerCase(path[2].ext)

(***************************************************************************)
(* The file system: n directories, parent[d] < d the directory holding d   *)
(* (0 for the root), kind[d] what the crawler meets at d, files[d] the     *)
(* files directly inside d in readdir order.                               *)
(***************************************************************************)
DirKinds == {"plain", "hidden", "ignored", "unreadable"}

Dirs == 1..fs.n
rootPath == 1

\* the subdirectories of d, in readdir order
Children(d) == {c \in Dirs : fs.parent[c] = d}

RECURSIVE SortedSeq(_)
SortedSeq(S) ==
    IF S = {} THEN <<>>
    ELSE LET m == CHOOSE x \in S : \A y \in S : x <= y
         IN <<m>> \o SortedSeq(S \ {m})

\* GitIgnoreParser.shouldIgnore on a directory path
shouldIgnoreDir(d) == fs.kind[d] = "ignored"
\* entry.startsWith('.') on a directory entry
isHiddenDir(d) == fs.kind[d] = "hidden"
\* fs.readdirSync(d) succeeds
canReaddir(d) == fs.kind[d] # "unreadable"

\* path.basename of a directory path
basename(d) ==
    CASE d = 1 -> "proj"
      [] d = 2 -> "dir2"
      [] d = 3 -> "dir3"
      [] d = 4 -> "dir4"
      [] d = 5 -> "dir5"
      [] OTHER -> "dirN"

\* the paths of the files directly inside d
FilePaths(d) == [k \in 1..Len(fs.files[d]) |-> <<d, fs.files[d][k]>>]

(***************************************************************************)
(* DirectoryCrawler.scanDirectory: the Directory record of dirPath.        *)
(***************************************************************************)
\* a scan that leaves out the subdirectories it cannot list
RECURSIVE scanDirectoryDroppingUnreadable(_)
scanDirectoryDroppingUnreadable(dirPath) ==
    LET keptDirs == SelectSeq(SortedSeq(Children(dirPath)),
                        LAMBDA c : ~shouldIgnoreDir(c) /\ ~isHiddenDir(c) /\ canReaddir(c))
        subdirectories == [k \in 1..Len(keptDirs) |->
                              scanDirectoryDroppingUnreadable(keptDirs[k])]
        files == SelectSeq(FilePaths(dirPath),
                     LAMBDA f : ~f[2].ignored /\ ~f[2].hidden /\ f[2].statOk)
    IN IF ~canReaddir(dirPath)
       THEN [path |-> dirPath, subdirectories |-> <<>>, files |-> <<>>, isLeaf |-> TRUE]
       ELSE [path |-> dirPath,
             subdirectories |-> subdirectories,
             files |-> files,
             isLeaf |-> Len(subdirectories) = 0]

RECURSIVE scanDirectory(_)
scanDirectory(dirPath) ==
    IF ~canReaddir(dirPath)
    THEN [path |-> dirPath, subdirectories |-> <<>>, files |-> <<>>, isLeaf |-> TRUE]
    ELSE LET keptDirs == SelectSeq(SortedSeq(Children(dirPath)),
                             LAMBDA c : ~shouldIgnoreDir(c) /\ ~isHiddenDir(c))
             subdirectories == [k \in 1..Len(keptDirs) |-> scanDirectory(keptDirs[k])]
             files == SelectSeq(FilePaths(dirPath),
                          LAMBDA f : ~f[2].ignored /\ ~f[2].hidden /\ f[2].statOk)
         IN [path |-> dirPath,
             subdirectories |-> subdirectories,
             files |-> files,
             isLeaf |-> Len(subdirectories) = 0]

(***************************************************************************)
(* DirectoryCrawler.createBottomUpOrder.  processDir is the helper closure *)
(* of the code; acc carries allDirs and processedDirs.                     *)
(***************************************************************************)
\* a helper that adds the directory before its subdirectories
RECURSIVE processDirPreOrder(_, _)
processDirPreOrder(dir, acc) ==
    LET RECURSIVE subs(_, _)
        subs(k, a) ==
            IF k > Len(dir.subdirectories) THEN a
            ELSE subs(k + 1, IF dir.subdirectories[k].path \in a.processedDirs THEN a
                             ELSE processDirPreOrder(dir.subdirectories[k], a))
        first == IF dir.path \in acc.processedDirs THEN acc
                 ELSE [allDirs |-> Append(acc.allDirs, dir.path),
                       processedDirs |-> acc.processedDirs \cup {dir.path}]
    IN subs(1, first)

\* a helper that adds leaf directories only
RECURSIVE processDirLeavesOnly(_, _)
processDirLeavesOnly(dir, acc) ==
    LET RECURSIVE subs(_, _)
        subs(k, a) ==
            IF k > Len(dir.subdirectories) THEN a
            ELSE subs(k + 1, processDirLeavesOnly(dir.subdirectories[k], a))
        after == subs(1, acc)
    IN IF dir.isLeaf
       THEN [allDirs |-> Append(after.allDirs, dir.path),
             processedDirs |-> after.processedDirs \cup {dir.path}]
       ELSE after

\* the helper of the code (lines 81-94)
RECURSIVE processDir(_, _)
processDir(dir, acc) ==
    LET RECURSIVE subs(_, _)
        subs(k, a) ==
            IF k > Len(dir.subdirectories) THEN a
            ELSE subs(k + 1, IF dir.subdirectories[k].path \in a.processedDirs THEN a
                             ELSE processDir(dir.subdirectories[k], a))
        after == subs(1, acc)
    IN IF dir.path \in after.processedDirs THEN after
       ELSE [allDirs |-> Append(after.allDirs, dir.path),
             processedDirs |-> after.processedDirs \cup {dir.path}]

createBottomUpOrder ==
    LET dirTree == scanDirectory(rootPath)
    IN processDir(dirTree, [allDirs |-> <<>>, processedDirs |-> {}]).allDirs

(***************************************************************************)
(* The crawler's shallow queries, each a fresh listing of the directory.   *)
(***************************************************************************)
\* fs.statSync succeeds on every entry of d (subdirectories always stat)
allEntriesStat(d) == \A k \in 1..Len(fs.files[d]) : fs.files[d][k].statOk

\* DirectoryCrawler.getCodeFiles: one try block around the whole listing
getCodeFiles(directoryPath) ==
    IF ~canReaddir(directoryPath) \/ ~allEntriesStat(directoryPath) THEN <<>>
    ELSE SelectSeq(FilePaths(directoryPath),
             LAMBDA f : /\ ~f[2].ignored
                        /\ ~f[2].hidden
                        /\ extname(f) \in codeExtensions)

\* DirectoryCrawler.hasSubdirectories: a stat error only drops that entry
hasSubdirectories(directoryPath) ==
    /\ canReaddir(directoryPath)
    /\ \E c \in Children(directoryPath) : ~shouldIgnoreDir(c)

\* the "immediate subdirectories" listing shared by getSingleFileSubdirectories
\* and getSubdirectoryDocs; ok = FALSE when the listing throws
listSubdirs(directoryPath) ==
    IF ~canReaddir(directoryPath) \/ ~allEntriesStat(directoryPath)
    THEN [ok |-> FALSE, subdirs |-> <<>>]
    ELSE [ok |-> TRUE,
          subdirs |-> SelectSeq(SortedSeq(Children(directoryPath)),
                          LAMBDA c : ~shouldIgnoreDir(c))]

\* what DirectoryCrawler.readFileContent returns: null is [null |-> TRUE]
readFileContent(filePath) ==
    IF ~filePath[2].statOk THEN [null |-> TRUE, content |-> <<>>]
    ELSE IF filePath[2].size > maxFileSizeKb * 1024 THEN [null |-> TRUE, content |-> <<>>]
    ELSE IF ~filePath[2].readOk THEN [null |-> TRUE, content |-> <<>>]
    ELSE [null |-> FALSE, content |-> filePath[2].content]

\* a JavaScript string-or-null used as a condition: null and '' are falsy
truthy(r) == ~r.null /\ Len(r.content) > 0

\* the two fence chunks of the template: three backquotes and a line break
fenceOpen == "[3 backquotes]\n"
fenceClose == "\n[3 backquotes]"

\* the template without the fenced block
inlineContentHeaderOnly(directoryPath, subdir, filePath, fileContent) ==
    <<"# ", basename(subdir), " - ", filePath[2].name, "\n\n",
      "This file is from a single-file directory: ", basename(subdir), "\n\n">>

\* the template string of getSingleFileSubdirectories (lines 210-212)
inlineContent(directoryPath, subdir, filePath, fileContent) ==
    <<"# ", basename(subdir), " - ", filePath[2].name, "\n\n",
      "This file is from a single-file directory: ", basename(subdir), "\n\n",
      fenceOpen>> \o fileContent \o <<fenceClose>>

\* DirectoryCrawler.getSingleFileSubdirectories
getSingleFileSubdirectories(directoryPath) ==
    LET l == listSubdirs(directoryPath)
        one(subdir) ==
            LET files == getCodeFiles(subdir)
            IN IF Len(files) = 1 /\ truthy(readFileContent(files[1]))
               THEN <<[path |-> subdir,
                       content |-> inlineContent(directoryPath, subdir, files[1],
                                       readFileContent(files[1]).content)]>>
               ELSE <<>>
        RECURSIVE each(_)
        each(k) == IF k > Len(l.subdirs) THEN <<>> ELSE one(l.subdirs[k]) \o each(k + 1)
    IN IF l.ok THEN each(1) ELSE <<>>

\* DirectoryCrawler.getDocumentationFile: the crawler's own config names the file
getDocumentationFile(directoryPath) ==
    IF documentationConfig.outputFilename \in DOMAIN disk[directoryPath]
    THEN <<documentationConfig.outputFilename>>
    ELSE <<>>

\* DirectoryCrawler.getSubdirectoryDocs
getSubdirectoryDocs(directoryPath) ==
    LET l == listSubdirs(directoryPath)
        one(subdir) ==
            LET docFile == getDocumentationFile(subdir)
            IN IF docFile # <<>>
               THEN <<[path |-> subdir, content |-> disk[subdir][docFile[1]]]>>
               ELSE <<>>
        RECURSIVE each(_)
        each(k) == IF k > Len(l.subdirs) THEN <<>> ELSE one(l.subdirs[k]) \o each(k + 1)
    IN IF l.ok THEN each(1) ELSE <<>>

(***************************************************************************)
(* FileAnalyzer (src/analyzer/index.ts).  An AnalysisResult is a record;   *)
(* limitReason is <<>> while undefined.  Reasons are records holding the   *)
(* fixed text and the numbers the template string interpolates.            *)
(***************************************************************************)
emptyResult ==
    [analyzedFiles |-> <<>>, excludedFiles |-> <<>>, limited |-> FALSE,
     totalSize |-> 0, limitReason |-> <<>>]

\* Math.round(bytes / 1024)
roundKb(bytes) == (bytes + 512) \div 1024

markdownReason == [text |-> "Markdown file excluded from code analysis"]
countReason == [text |-> "Excluded due to file count limit"]
sizeReason(size) ==
    [text |-> "File size exceeds limit", sizeKb |-> roundKb(size), limitKb |-> maxFileSizeKb]
errorReason == [text |-> "Error reading file"]

\* a processFile that analyzes a file whatever its size
processFileAnySize(filePath, res) ==
    IF ~filePath[2].statOk \/ ~filePath[2].readOk
    THEN [res EXCEPT !.excludedFiles = Append(@, [path |-> filePath, reason |-> errorReason])]
    ELSE [res EXCEPT !.analyzedFiles =
                         Append(@, [path |-> filePath, content |-> filePath[2].content,
                                    extension |-> extname(filePath)]),
                     !.totalSize = @ + filePath[2].size]

\* FileAnalyzer.processFile
processFile(filePath, res) ==
    IF ~filePath[2].statOk
    THEN [res EXCEPT !.excludedFiles = Append(@, [path |-> filePath, reason |-> errorReason])]
    ELSE IF filePath[2].size > maxFileSizeKb * 1024
    THEN [res EXCEPT !.excludedFiles =
              Append(@, [path |-> filePath, reason |-> sizeReason(filePath[2].size)])]
    ELSE IF ~filePath[2].readOk
    THEN [res EXCEPT !.excludedFiles = Append(@, [path |-> filePath, reason |-> errorReason])]
    ELSE [res EXCEPT !.analyzedFiles =
                         Append(@, [path |-> filePath, content |-> filePath[2].content,
                                    extension |-> extname(filePath)]),
                     !.totalSize = @ + filePath[2].size]

\* the filter callback of analyzeFiles (lines 263-275): the kept files
\* a filter that lets markdown files through
codeFilesKeepingMarkdown(filePaths) ==
    SelectSeq(filePaths, LAMBDA f : extname(f) = ".md" \/ extname(f) \in codeExtensions)

\* the files the filter callbacks of analyzeFiles and shouldDocument keep
codeFilesOf(filePaths) ==
    SelectSeq(filePaths, LAMBDA f : extname(f) # ".md" /\ extname(f) \in codeExtensions)

\* the filter callback of analyzeFiles: the exclusions it records on the way
markdownExclusions(filePaths) ==
    LET md == SelectSeq(filePaths, LAMBDA f : extname(f) = ".md")
    IN [k \in 1..Len(md) |-> [path |-> md[k], reason |-> markdownReason]]

\* Array.prototype.includes
includes(s, x) == \E k \in 1..Len(s) : s[k] = x

\* a slice that keeps one element more than asked
slice0OneMore(s, n) == SubSeq(s, 1, IF n + 1 < Len(s) THEN n + 1 ELSE Len(s))

\* codeFiles.slice(0, n)
slice0(s, n) == SubSeq(s, 1, IF n < Len(s) THEN n ELSE Len(s))

\* the loop of the file-count branch (lines 283-293)
RECURSIVE countBranchLoop(_, _, _, _)
countBranchLoop(codeFiles, limitedFiles, k, res) ==
    IF k > Len(codeFiles) THEN res
    ELSE countBranchLoop(codeFiles, limitedFiles, k + 1,
             IF includes(limitedFiles, codeFiles[k])
             THEN processFile(codeFiles[k], res)
             ELSE [res EXCEPT !.excludedFiles =
                       Append(@, [path |-> codeFiles[k], reason |-> countReason])])

\* a loop that stops as soon as the total reaches the aggregate ceiling
RECURSIVE sizeBranchLoopAtCeiling(_, _, _)
sizeBranchLoopAtCeiling(codeFiles, k, res) ==
    IF k > Len(codeFiles) THEN res
    ELSE LET r == processFile(codeFiles[k], res)
             maxTotalSize == maxFilesPerDirectory * maxFileSizeKb * 1024
         IN IF r.totalSize >= maxTotalSize
            THEN [r EXCEPT !.limited = TRUE,
                           !.limitReason = <<[text |-> "Total size exceeds limit",
                                              totalKb |-> roundKb(r.totalSize),
                                              limitKb |-> roundKb(maxTotalSize)]>>]
            ELSE sizeBranchLoopAtCeiling(codeFiles, k + 1, r)

\* the loop of the other branch (lines 299-309), with its break
RECURSIVE sizeBranchLoop(_, _, _)
sizeBranchLoop(codeFiles, k, res) ==
    IF k > Len(codeFiles) THEN res
    ELSE LET r == processFile(codeFiles[k], res)
             maxTotalSize == maxFilesPerDirectory * maxFileSizeKb * 1024
         IN IF r.totalSize > maxTotalSize
            THEN [r EXCEPT !.limited = TRUE,
                           !.limitReason = <<[text |-> "Total size exceeds limit",
                                              totalKb |-> roundKb(r.totalSize),
                                              limitKb |-> roundKb(maxTotalSize)]>>]
            ELSE sizeBranchLoop(codeFiles, k + 1, r)

\* FileAnalyzer.analyzeFiles (directoryPath is only passed through)
analyzeFiles(filePaths) ==
    LET codeFiles == codeFilesOf(filePaths)
        res0 == [emptyResult EXCEPT !.excludedFiles = markdownExclusions(filePaths)]
    IN IF Len(codeFiles) > maxFilesPerDirectory
       THEN countBranchLoop(codeFiles, slice0(codeFiles, maxFilesPerDirectory), 1,
                [res0 EXCEPT !.limited = TRUE,
                             !.limitReason = <<[text |-> "Too many files",
                                                count |-> Len(codeFiles),
                                                limit |-> maxFilesPerDirectory]>>])
       ELSE sizeBranchLoop(codeFiles, 1, res0)

\* an eligibility test that skips every one-file directory
shouldDocumentIgnoringSubdirectories(filePaths, hasSubdirs) ==
    LET codeFiles == codeFilesOf(filePaths)
    IN IF Len(codeFiles) = 1 THEN FALSE ELSE Len(codeFiles) > 0

\* FileAnalyzer.shouldDocument
shouldDocument(filePaths, hasSubdirs) ==
    LET codeFiles == codeFilesOf(filePaths)
    IN IF Len(codeFiles) = 1 /\ ~hasSubdirs THEN FALSE ELSE Len(codeFiles) > 0

(***************************************************************************)
(* The auto-* tools.  The three shipped tools differ in their file names   *)
(* and prompts only; config.updateExisting is the constructor argument, or *)
(* config.documentation.updateExisting when that is undefined.             *)
(***************************************************************************)
ToolNames == {"generate_documentation", "autotestplan", "autoreview"}

outputFilenameOf(toolName) ==
    CASE toolName = "generate_documentation" -> documentationConfig.outputFilename
      [] toolName = "autotestplan" -> "testplan.md"
      [] toolName = "autoreview" -> "review.md"

fallbackFilenameOf(toolName) ==
    CASE toolName = "generate_documentation" -> documentationConfig.fallbackFilename
      [] toolName = "autotestplan" -> "untested.md"
      [] toolName = "autoreview" -> "review-skipped.md"

\* the tool constructors; updateExisting is "undefined", "true" or "false"
newTool(toolName, updateExisting) ==
    [name |-> toolName,
     config |-> [outputFilename |-> outputFilenameOf(toolName),
                 fallbackFilename |-> fallbackFilenameOf(toolName),
                 updateExisting |-> IF updateExisting # "undefined"
                                    THEN updateExisting = "true"
                                    ELSE documentationConfig.updateExisting]]

\* ToolRegistry.registerTools: every tool is built without updateExisting
registryTool(toolName) == newTool(toolName, "undefined")

\* what the LLM returns for a directory when the request succeeds
generatedContent(directoryPath) == <<"generated for ", basename(directoryPath)>>

\* the system prompt generate picks (lines 91-97)
promptFor(isTopLevel, childrenContent) ==
    IF isTopLevel THEN "topLevelPrompt"
    ELSE IF Len(childrenContent) > 0 THEN "withChildrenPrompt"
    ELSE "systemPrompt"

\* a generate whose skip outcome carries no content
generateSkipWithoutContent(tool, files, directoryPath, analysisResult, isTopLevel, childrenContent, llm, writeOk) ==
    LET outputPath == tool.config.outputFilename
        isUpdate == outputPath \in DOMAIN files
    IN IF isUpdate /\ ~tool.config.updateExisting
       THEN [res |-> [outputPath |-> <<directoryPath, outputPath>>, success |-> TRUE,
                      content |-> <<>>, error |-> FALSE,
                      isUpdate |-> FALSE, skipped |-> TRUE],
             files |-> files, llmCalled |-> FALSE, wrote |-> FALSE]
       ELSE [res |-> [outputPath |-> <<directoryPath, outputPath>>, success |-> FALSE,
                      content |-> <<>>, error |-> TRUE,
                      isUpdate |-> isUpdate, skipped |-> FALSE],
             files |-> files, llmCalled |-> TRUE, wrote |-> FALSE]

\* a generate that reports isUpdate only when it wrote the file
generateUpdateOnlyOnSuccess(tool, files, directoryPath, analysisResult, isTopLevel, childrenContent, llm, writeOk) ==
    LET outputPath == tool.config.outputFilename
        isUpdate == outputPath \in DOMAIN files
    IN IF isUpdate /\ ~tool.config.updateExisting
       THEN [res |-> [outputPath |-> <<directoryPath, outputPath>>, success |-> TRUE,
                      content |-> files[outputPath], error |-> FALSE,
                      isUpdate |-> FALSE, skipped |-> TRUE],
             files |-> files, llmCalled |-> FALSE, wrote |-> FALSE]
       ELSE IF llm # "ok" \/ ~writeOk
       THEN [res |-> [outputPath |-> <<directoryPath, outputPath>>, success |-> FALSE,
                      content |-> <<>>, error |-> TRUE,
                      isUpdate |-> FALSE, skipped |-> FALSE],
             files |-> files, llmCalled |-> TRUE, wrote |-> FALSE]
       ELSE [res |-> [outputPath |-> <<directoryPath, outputPath>>, success |-> TRUE,
                      content |-> generatedContent(directoryPath), error |-> FALSE,
                      isUpdate |-> isUpdate, skipped |-> FALSE],
             files |-> [f \in DOMAIN files \cup {outputPath} |->
                           IF f = outputPath THEN generatedContent(directoryPath)
                           ELSE files[f]],
             llmCalled |-> TRUE, wrote |-> TRUE]

\* a generate that opens the artifact for writing before it asks the LLM
generateTruncatingFirst(tool, files, directoryPath, analysisResult, isTopLevel, childrenContent, llm, writeOk) ==
    LET outputPath == tool.config.outputFilename
        isUpdate == outputPath \in DOMAIN files
        written(content) == [f \in DOMAIN files \cup {outputPath} |->
                                IF f = outputPath THEN content ELSE files[f]]
    IN IF isUpdate /\ ~tool.config.updateExisting
       THEN [res |-> [outputPath |-> <<directoryPath, outputPath>>, success |-> TRUE,
                      content |-> files[outputPath], error |-> FALSE,
                      isUpdate |-> FALSE, skipped |-> TRUE],
             files |-> files, llmCalled |-> FALSE, wrote |-> FALSE]
       ELSE IF llm # "ok" \/ ~writeOk
       THEN [res |-> [outputPath |-> <<directoryPath, outputPath>>, success |-> FALSE,
                      content |-> <<>>, error |-> TRUE,
                      isUpdate |-> isUpdate, skipped |-> FALSE],
             files |-> written(<<>>), llmCalled |-> TRUE, wrote |-> FALSE]
       ELSE [res |-> [outputPath |-> <<directoryPath, outputPath>>, success |-> TRUE,
                      content |-> generatedContent(directoryPath), error |-> FALSE,
                      isUpdate |-> isUpdate, skipped |-> FALSE],
             files |-> written(generatedContent(directoryPath)),
             llmCalled |-> TRUE, wrote |-> TRUE]

\* ReviewTool.generate / TestPlanTool.generate / DocumentationTool.generate.
\* llm is what generateWithCustomPrompt does ("ok" or "error"), writeOk whether
\* fs.promises.writeFile succeeds.  Returns the AutoToolResult, the files of
\* the directory afterwards, and whether the LLM was called.
generate(tool, files, directoryPath, analysisResult, isTopLevel, childrenContent, llm, writeOk) ==
    LET outputPath == tool.config.outputFilename
        isUpdate == outputPath \in DOMAIN files
    IN IF isUpdate /\ ~tool.config.updateExisting
       THEN [res |-> [outputPath |-> <<directoryPath, outputPath>>, success |-> TRUE,
                      content |-> files[outputPath], error |-> FALSE,
                      isUpdate |-> FALSE, skipped |-> TRUE],
             files |-> files, llmCalled |-> FALSE, wrote |-> FALSE]
       ELSE IF llm # "ok" \/ ~writeOk
       THEN [res |-> [outputPath |-> <<directoryPath, outputPath>>, success |-> FALSE,
                      content |-> <<>>, error |-> TRUE,
                      isUpdate |-> isUpdate, skipped |-> FALSE],
             files |-> files, llmCalled |-> TRUE, wrote |-> FALSE]
       ELSE [res |-> [outputPath |-> <<directoryPath, outputPath>>, success |-> TRUE,
                      content |-> generatedContent(directoryPath), error |-> FALSE,
                      isUpdate |-> isUpdate, skipped |-> FALSE],
             files |-> [f \in DOMAIN files \cup {outputPath} |->
                           IF f = outputPath THEN generatedContent(directoryPath)
                           ELSE files[f]],
             llmCalled |-> TRUE, wrote |-> TRUE]

\* a fallback report without text
createFallbackContentBlank(tool, directoryPath, analysisResult) == <<>>

\* createFallbackContent of the tools: the report, as one structured chunk
createFallbackContent(tool, directoryPath, analysisResult) ==
    <<[title |-> basename(directoryPath),
       reason |-> analysisResult.limitReason,
       analyzed |-> [k \in 1..Len(analysisResult.analyzedFiles) |->
                        analysisResult.analyzedFiles[k].path[2].name],
       excluded |-> [k \in 1..Len(analysisResult.excludedFiles) |->
                        [name |-> analysisResult.excludedFiles[k].path[2].name,
                         reason |-> analysisResult.excludedFiles[k].reason]],
       howToFix |-> tool.config.outputFilename]>>

(***************************************************************************)
(* ToolAggregator (src/build/tools/aggregator.js).                         *)
(***************************************************************************)
zeroResult ==
    [totalDirectories |-> 0, successfulGenerations |-> 0, failedGenerations |-> 0,
     fallbackFiles |-> 0, updatedGenerations |-> 0, skippedGenerations |-> 0,
     errors |-> <<>>]

noCall == [via |-> "none"]
noReq == [directoryPath |-> 0]
noAn ==
    [input |-> <<>>, hasSubdirectories |-> FALSE,
     analyzed |-> FALSE, result |-> emptyResult,
     decided |-> FALSE, should |-> FALSE]

\* the catch block of run (lines 99-106)
globalCatch(res) ==
    [res EXCEPT !.errors = Append(@, [directory |-> rootPath, error |-> "Global error"])]

\* what generateContent returns when tool.generate throws (lines 141-147)
thrownResult(tool, directoryPath) ==
    [outputPath |-> <<directoryPath, tool.config.outputFilename>>, success |-> FALSE,
     content |-> <<>>, error |-> TRUE, isUpdate |-> FALSE, skipped |-> FALSE]

\* a generateContent that counts a failure without recording its error
generateContentWithoutErrorEntry(directoryPath, genResult, aggregationResult) ==
    IF genResult.success
    THEN [aggregationResult EXCEPT !.successfulGenerations = @ + 1]
    ELSE [aggregationResult EXCEPT !.failedGenerations = @ + 1]

\* ToolAggregator.generateContent: the counters after tool.generate ended with
\* genResult (threw = TRUE when it threw and genResult is thrownResult)
generateContent(directoryPath, genResult, aggregationResult) ==
    IF genResult.success
    THEN [aggregationResult EXCEPT !.successfulGenerations = @ + 1]
    ELSE [aggregationResult EXCEPT
              !.failedGenerations = @ + 1,
              !.errors = Append(@, [directory |-> directoryPath, error |-> "generation"])]

\* lines 89-95 of run: the sub-classification of the outcome
classify(genResult, res) ==
    IF genResult.skipped THEN [res EXCEPT !.skippedGenerations = @ + 1]
    ELSE IF genResult.isUpdate THEN [res EXCEPT !.updatedGenerations = @ + 1]
    ELSE res

\* the tool calls the model makes: updateExisting is "undefined", "true" or
\* "false" ("true" and "undefined" give the same aggregator and the same tool)
Requests ==
    {[name |-> "generate_documentation", arguments |-> [updateExisting |-> "false"]],
     [name |-> "autoreview", arguments |-> [updateExisting |-> "undefined"]]}

\* the handler of CallToolRequestSchema (src/build/index.js lines 52-83), up to
\* the call of aggregator.run: the tool comes from the registry.
CallTool ==
    /\ pc = "idle"
    /\ \E request \in Requests :
          LET toolName == request.name
              updateExisting == request.arguments.updateExisting
          IN
          call' = [via |-> "server",
                   tool |-> registryTool(toolName),
                   args |-> [updateExisting |-> updateExisting],
                   \* new ToolAggregator(path, tool, updateExisting), default true
                   updateExisting |-> updateExisting # "false"]
    /\ result' = zeroResult
    /\ pc' = "start"
    /\ UNCHANGED <<fs, disk, directories, i, req, log, an>>

\* a program that builds the tool and the aggregator itself, with the
\* no-overwrite policy given to both constructors
RunDirect ==
    /\ pc = "idle"
    /\ \E toolName \in {"autoreview"} :
          call' = [via |-> "direct",
                   tool |-> newTool(toolName, "false"),
                   args |-> [updateExisting |-> "false"],
                   updateExisting |-> FALSE]
    /\ result' = zeroResult
    /\ pc' = "start"
    /\ UNCHANGED <<fs, disk, directories, i, req, log, an>>

\* run, lines 38-40
Scan ==
    /\ pc = "start"
    /\ directories' = createBottomUpOrder
    /\ result' = [result EXCEPT !.totalDirectories = Len(createBottomUpOrder)]
    /\ i' = 0
    /\ pc' = "loop"
    /\ UNCHANGED <<fs, disk, call, req, log, an>>

\* a progress call that reports the 0-based loop index
progressCallZeroBased(directoryPath, fileCount, idx, total) ==
    [type |-> "progress", directory |-> directoryPath, fileCount |-> fileCount,
     currentIndex |-> idx, totalDirectories |-> total]

\* the call of progressCallback (lines 48-50), idx being the loop index
progressCall(directoryPath, fileCount, idx, total) ==
    [type |-> "progress", directory |-> directoryPath, fileCount |-> fileCount,
     currentIndex |-> idx + 1, totalDirectories |-> total]

\* one iteration of the loop of run, lines 42-88, up to the await of
\* generateContent.  sinkOk: the progress callback returns; writeOk: the
\* fallback file can be written.
Visit ==
    /\ pc = "loop"
    /\ i < Len(directories)
    /\ LET directoryPath == directories[i + 1]
           files == getCodeFiles(directoryPath)
           progress == progressCall(directoryPath, Len(files), i, Len(directories))
           hasSubdirs == hasSubdirectories(directoryPath)
           subdirContent == getSubdirectoryDocs(directoryPath)
           singleFileContent == getSingleFileSubdirectories(directoryPath)
           analysisResult == analyzeFiles(files)
           allChildContent == subdirContent \o singleFileContent
           fallbackPath == call.tool.config.fallbackFilename
           abort(events) ==
               /\ result' = globalCatch(result)
               /\ pc' = "done"
               /\ log' = log \o events
               /\ UNCHANGED <<disk, i, req>>
           \* the fallback file is written for an eligible, limited directory only
           writes == shouldDocument(files, hasSubdirs) /\ analysisResult.limited
       IN \E sinkOk \in (IF call.via = "server" THEN {TRUE} ELSE BOOLEAN),
             writeOk \in (IF writes THEN BOOLEAN ELSE {TRUE}) :
             IF ~sinkOk
             THEN abort(<<[progress EXCEPT !.type = "progress threw"]>>)
             ELSE IF ~shouldDocument(files, hasSubdirs)
             THEN /\ i' = i + 1
                  /\ log' = log \o <<progress, [type |-> "skipped", directory |-> directoryPath]>>
                  /\ UNCHANGED <<disk, pc, result, req>>
             ELSE IF analysisResult.limited
             THEN IF writeOk
                  THEN /\ disk' = [disk EXCEPT ![directoryPath] =
                                      [f \in DOMAIN @ \cup {fallbackPath} |->
                                          IF f = fallbackPath
                                          THEN createFallbackContent(call.tool, directoryPath,
                                                                     analysisResult)
                                          ELSE @[f]]]
                       /\ result' = [result EXCEPT !.fallbackFiles = @ + 1]
                       /\ i' = i + 1
                       /\ log' = log \o <<progress, [type |-> "fallback",
                                                      directory |-> directoryPath,
                                                      childContent |-> allChildContent,
                                                      analysisResult |-> analysisResult]>>
                       /\ UNCHANGED <<pc, req>>
                  ELSE abort(<<progress, [type |-> "fallback threw",
                                          directory |-> directoryPath]>>)
             ELSE /\ req' = [directoryPath |-> directoryPath,
                             analysisResult |-> analysisResult,
                             isTopLevel |-> (directoryPath = rootPath),
                             childContent |-> allChildContent]
                  /\ pc' = "generate"
                  /\ log' = log \o <<progress>>
                  /\ UNCHANGED <<disk, i, result>>
    /\ UNCHANGED <<fs, call, directories, an>>

\* the awaited generateContent ends (lines 88-96 and 117-149).  llm and
\* writeOk are the outcomes of the LLM request and of the write of the
\* artifact; a tool handed in by a program may also throw.
Generate ==
    /\ pc = "generate"
    /\ \E llm \in {"ok", "error"}, writeOk \in BOOLEAN,
          throws \in (IF call.via = "server" THEN {FALSE} ELSE BOOLEAN) :
          \* the artifact is written only after the LLM has answered
          /\ llm = "error" => writeOk
          /\ LET directoryPath == req.directoryPath
                 g == generate(call.tool, disk[directoryPath], directoryPath,
                               req.analysisResult, req.isTopLevel, req.childContent,
                               llm, writeOk)
                 genResult == IF throws THEN thrownResult(call.tool, directoryPath) ELSE g.res
             IN /\ disk' = IF throws THEN disk ELSE [disk EXCEPT ![directoryPath] = g.files]
                /\ result' = classify(genResult,
                                  generateContent(directoryPath, genResult, result))
                /\ log' = Append(log, [type |-> "generate",
                                       directory |-> directoryPath,
                                       isTopLevel |-> req.isTopLevel,
                                       childContent |-> req.childContent,
                                       analysisResult |-> req.analysisResult,
                                       prompt |-> promptFor(req.isTopLevel, req.childContent),
                                       existed |-> (call.tool.config.outputFilename
                                                       \in DOMAIN disk[directoryPath]),
                                       threw |-> throws,
                                       llmCalled |-> (~throws /\ g.llmCalled),
                                       wrote |-> (~throws /\ g.wrote),
                                       res |-> genResult])
    /\ i' = i + 1
    /\ req' = noReq
    /\ pc' = "loop"
    /\ UNCHANGED <<fs, call, directories, an>>

\* run, line 97
Return ==
    /\ pc = "loop"
    /\ i = Len(directories)
    /\ pc' = "done"
    /\ UNCHANGED <<fs, disk, call, directories, i, result, req, log, an>>

(***************************************************************************)
(* Initial states.                                                         *)
(***************************************************************************)
\* what one directory of a run holds: its kind and its files
PlainFileLists ==
    {<<>>, <<fileA>>, <<fileA, fileMd, fileB>>, <<fileA, fileB, fileC>>,
     <<fileBig>>, <<fileEmpty>>}

RootProfiles ==
    [kind : {"plain"}, files : PlainFileLists \ {<<fileBig>>, <<fileEmpty>>}]
        \cup {[kind |-> "unreadable", files |-> <<>>]}

SubProfiles ==
    [kind : {"plain"}, files : PlainFileLists]
        \cup {[kind |-> "hidden", files |-> <<fileA, fileB>>]}

\* the file systems of exactly n directories: directory d > 1 is created
\* under one of the directories 1..d-1
RECURSIVE FileSystemsOf(_, _, _)
FileSystemsOf(n, rootProfiles, subProfiles) ==
    IF n = 1
    THEN {[n |-> 1, parent |-> <<0>>, kind |-> <<r.kind>>, files |-> <<r.files>>] :
             r \in rootProfiles}
    ELSE {[n |-> n, parent |-> Append(f.parent, par),
           kind |-> Append(f.kind, s.kind),
           files |-> Append(f.files, s.files)] :
             f \in FileSystemsOf(n - 1, rootProfiles, subProfiles),
             par \in 1..(n - 1), s \in subProfiles}

FileSystems(maxDirs, rootProfiles, subProfiles) ==
    UNION {FileSystemsOf(n, rootProfiles, subProfiles) : n \in 1..maxDirs}

\* the markdown files earlier runs left in a directory
earlierFiles ==
    [f \in {"documentation.md", "review.md"} |-> <<"earlier ", f>>]

Init ==
    /\ fs \in FileSystems(MaxDirs, RootProfiles, SubProfiles)
    /\ \E pre \in {{}, 1..fs.n} \cup {{d} : d \in 1..fs.n} :
          disk = [d \in 1..fs.n |-> IF d \in pre THEN earlierFiles ELSE <<>>]
    /\ call = noCall
    /\ pc = "idle"
    /\ directories = <<>>
    /\ i = 0
    /\ result = zeroResult
    /\ req = noReq
    /\ log = <<>>
    /\ an = noAn

(***************************************************************************)
(* createBottomUpOrder on its own: larger trees, every kind of directory.  *)
(***************************************************************************)
TreeRootProfiles == [kind : {"plain", "unreadable"}, files : {<<fileA>>}]
TreeSubProfiles == [kind : DirKinds, files : {<<fileA>>}]

InitOrder ==
    /\ fs \in FileSystems(MaxTreeDirs, TreeRootProfiles, TreeSubProfiles)
    /\ disk = [d \in 1..fs.n |-> <<>>]
    /\ call = noCall
    /\ pc = "start"
    /\ directories = <<>>
    /\ i = 0
    /\ result = zeroResult
    /\ req = noReq
    /\ log = <<>>
    /\ an = noAn

SpecOrder == InitOrder /\ [][Scan]_vars

(***************************************************************************)
(* The analyzer on its own: analyzeFiles and shouldDocument applied to a   *)
(* list of distinct file paths of one directory.                           *)
(***************************************************************************)
AnalyzerFiles ==
    {fileA, fileB, fileC, fileBig, fileEmpty, fileMd, fileMdUpper, fileTxt,
     fileNoRead, fileNoStat, fileBigNoRead}

\* the sequences without repetition of at most n elements of S
RECURSIVE DistinctSeqs(_, _)
DistinctSeqs(S, n) ==
    IF n = 0 THEN {<<>>}
    ELSE LET shorter == DistinctSeqs(S, n - 1)
             longest == {r \in shorter : Len(r) = n - 1}
             fresh(q) == {x \in S : \A k \in 1..Len(q) : q[k] # x}
         IN shorter \cup UNION {{Append(q, x) : x \in fresh(q)} : q \in longest}

AnalyzeFiles ==
    /\ pc = "analyzer"
    /\ ~an.analyzed
    /\ an' = [an EXCEPT !.analyzed = TRUE, !.result = analyzeFiles(an.input)]
    /\ UNCHANGED <<fs, disk, call, pc, directories, i, result, req, log>>

ShouldDocument ==
    /\ pc = "analyzer"
    /\ ~an.decided
    /\ an' = [an EXCEPT !.decided = TRUE,
                        !.should = shouldDocument(an.input, an.hasSubdirectories)]
    /\ UNCHANGED <<fs, disk, call, pc, directories, i, result, req, log>>

InitAnalyze ==
    /\ fs = [n |-> 1, parent |-> <<0>>, kind |-> <<"plain">>, files |-> <<<<>>>>]
    /\ disk = <<<<>>>>
    /\ call = noCall
    /\ pc = "analyzer"
    /\ directories = <<>>
    /\ i = 0
    /\ result = zeroResult
    /\ req = noReq
    /\ log = <<>>
    /\ \E files \in DistinctSeqs(AnalyzerFiles, MaxFiles), hasSubdirs \in BOOLEAN :
          an = [noAn EXCEPT !.input = [k \in 1..Len(files) |-> <<1, files[k]>>],
                            !.hasSubdirectories = hasSubdirs]

SpecAnalyze == InitAnalyze /\ [][AnalyzeFiles \/ ShouldDocument]_vars

(***************************************************************************)
(* The analyzer on directories of 9KB files, alone or next to a small, a   *)
(* markdown, an oversize file and two files of exactly the per-file        *)
(* ceiling.                                                                *)
(***************************************************************************)
NineKbFiles == {nineKb(k) : k \in 1..MaxFiles}

InitSizes ==
    /\ fs = [n |-> 1, parent |-> <<0>>, kind |-> <<"plain">>, files |-> <<<<>>>>]
    /\ disk = <<<<>>>>
    /\ call = noCall
    /\ pc = "analyzer"
    /\ directories = <<>>
    /\ i = 0
    /\ result = zeroResult
    /\ req = noReq
    /\ log = <<>>
    /\ \E files \in DistinctSeqs(NineKbFiles \cup {fileA, fileMd, fileBig, fileC, fileD},
                             MaxFiles),
          hasSubdirs \in BOOLEAN :
          an = [noAn EXCEPT !.input = [k \in 1..Len(files) |-> <<1, files[k]>>],
                            !.hasSubdirectories = hasSubdirs]

SpecSizes == InitSizes /\ [][AnalyzeFiles \/ ShouldDocument]_vars

Next == CallTool \/ RunDirect \/ Scan \/ Visit \/ Generate \/ Return

Spec == Init /\ [][Next]_vars

(***************************************************************************)
(* Properties of the traversal order.                                      *)
(***************************************************************************)
\* d belongs to the scanned tree: the root, or a directory that is neither
\* ignored nor hidden and whose parent is a listable directory of the tree
RECURSIVE InScannedTree(_)
InScannedTree(d) ==
    \/ d = rootPath
    \/ /\ fs.parent[d] # 0
       /\ ~shouldIgnoreDir(d)
       /\ ~isHiddenDir(d)
       /\ canReaddir(fs.parent[d])
       /\ InScannedTree(fs.parent[d])

\* the indexes at which x occurs in seq
Occurrences(seq, x) == {k \in 1..Len(seq) : seq[k] = x}

\* the subdirectories of D that belong to the scanned tree
ScannedChildren(D) == {S \in Dirs : fs.parent[S] = D /\ InScannedTree(S)}

\* C1: in the sequence createBottomUpOrder returns, every directory D of the
\* scanned tree and every subdirectory S of D in that tree both occur, and S
\* occurs at a strictly smaller index than D.
C1_ChildrenBeforeParents ==
    pc = "loop" =>
        \A D \in Dirs : InScannedTree(D) =>
            \A S \in ScannedChildren(D) :
                /\ Occurrences(directories, S) # {}
                /\ Occurrences(directories, D) # {}
                /\ \A s \in Occurrences(directories, S), d \in Occurrences(directories, D) :
                      s < d

\* a scan of a tree three levels deep in which the root has two subtrees
C1_Witness ==
    /\ pc = "loop"
    /\ Cardinality(ScannedChildren(rootPath)) >= 2
    /\ \E S \in ScannedChildren(rootPath) : ScannedChildren(S) # {}
    /\ directories[Len(directories)] = rootPath

\* C2: the sequence createBottomUpOrder returns holds every directory of the
\* scanned tree exactly once, and nothing else.
C2_EachDirectoryOnce ==
    pc = "loop" =>
        /\ \A k \in 1..Len(directories) : directories[k] \in Dirs
        /\ \A d \in Dirs :
              Cardinality(Occurrences(directories, d)) = IF InScannedTree(d) THEN 1 ELSE 0

\* a scan that returned inner directories and leaves and left out a directory
\* that is hidden, ignored or below an unlistable directory
C2_Witness ==
    /\ pc = "loop"
    /\ Len(directories) >= 3
    /\ \E d \in Dirs : ~InScannedTree(d)
    /\ \E d \in Dirs : InScannedTree(d) /\ d # rootPath /\ ScannedChildren(d) # {}

(***************************************************************************)
(* Properties of a run.                                                    *)
(***************************************************************************)
OutcomeTypes == {"skipped", "fallback", "fallback threw", "generate"}

\* the driver has visited d: its progress event was emitted and its outcome
\* (skip, fallback or generation) was decided
Visited(d) ==
    /\ \E k \in 1..Len(log) : log[k].type = "progress" /\ log[k].directory = d
    /\ \E k \in 1..Len(log) : log[k].type \in OutcomeTypes /\ log[k].directory = d

\* C3: whenever the generator is invoked for a directory D, every subdirectory
\* of D in the scanned tree has already been visited.
C3_GenerateAfterSubdirectories ==
    pc = "generate" =>
        \A S \in ScannedChildren(req.directoryPath) : Visited(S)

\* the generator is invoked for a directory whose subdirectory went through
\* the generator itself and has a subdirectory of its own
C3_Witness ==
    /\ pc = "generate"
    /\ \E S \in ScannedChildren(req.directoryPath) :
          /\ ScannedChildren(S) # {}
          /\ \E k \in 1..Len(log) : log[k].type = "generate" /\ log[k].directory = S

\* the generator calls of the run so far, and the events of one directory
GenerateEvents == {k \in 1..Len(log) : log[k].type = "generate"}
EventsOf(d, types) == {k \in 1..Len(log) : log[k].type \in types /\ log[k].directory = d}

\* a request that reached the server with updateExisting = false
ServerNoUpdate == call.via = "server" /\ call.args.updateExisting = "false"

C5_NoFilesWithSubdirectoriesEligible ==
    \A d \in Dirs :
        (getCodeFiles(d) = <<>> /\ hasSubdirectories(d)) =>
            EventsOf(d, {"skipped"}) = {}

\* the root holds no code file, its subdirectory was documented, and the root
\* was skipped without its subdirectory's artifact being collected
C5_AggregatorSkipped ==
    /\ getCodeFiles(rootPath) = <<>>
    /\ hasSubdirectories(rootPath)
    /\ canReaddir(rootPath)
    /\ EventsOf(rootPath, {"skipped"}) # {}
    /\ \E S \in ScannedChildren(rootPath) :
          \E k \in EventsOf(S, {"generate"}) : log[k].wrote
    /\ pc = "done"

\* S holds exactly one qualifying code file and has no subdirectory
SingleFileDirectory(S) == Len(getCodeFiles(S)) = 1 /\ Children(S) = {}

\* content holds body between the two fence chunks
ContainsFenced(content, body) ==
    \E a \in 1..Len(content) :
        /\ content[a] = fenceOpen
        /\ a + Len(body) + 1 <= Len(content)
        /\ SubSeq(content, a + 1, a + Len(body)) = body
        /\ content[a + Len(body) + 1] = fenceClose

\* the items of a child-content list that inline the file of S
InlinedItems(childContent, S) ==
    {j \in 1..Len(childContent) :
        /\ childContent[j].path = S
        /\ \E a \in 1..Len(childContent[j].content) :
              childContent[j].content[a] = "This file is from a single-file directory: "}

\* the file can be inlined: it can be read, is not empty and is no larger
\* than the per-file ceiling
Inlinable(file) ==
    file.statOk /\ file.readOk /\ file.size <= maxFileSize /\ Len(file.content) > 0

\* the generator is never invoked for S
NeverGenerated(S) ==
    /\ EventsOf(S, {"generate", "fallback", "fallback threw"}) = {}
    /\ pc = "generate" => req.directoryPath # S

\* C7 as stated: a single-file directory S without subdirectories never goes
\* to the generator, and whenever its parent's child content is collected it
\* holds an item with path S that carries the file's content in a fenced block.
C7_SingleFileAlwaysInlined ==
    \A S \in Dirs :
        SingleFileDirectory(S) =>
            /\ NeverGenerated(S)
            /\ \A k \in EventsOf(fs.parent[S], {"generate", "fallback"}) :
                  \E j \in InlinedItems(log[k].childContent, S) :
                      ContainsFenced(log[k].childContent[j].content,
                                     getCodeFiles(S)[1][2].content)

\* C7 (amended): a directory S that is not ignored, holds exactly one
\* qualifying code file and has no subdirectories never goes to the
\* generator; whenever its parent's child content is collected it holds
\* exactly one inlined item for S carrying the file's content in a fenced
\* block if the file is readable, not empty and within the per-file size
\* ceiling, and no inlined item for S otherwise.
C7_SingleFileInlinedWhenReadable ==
    \A S \in Dirs :
        (SingleFileDirectory(S) /\ ~shouldIgnoreDir(S)) =>
            /\ NeverGenerated(S)
            /\ \A k \in EventsOf(fs.parent[S], {"generate", "fallback"}) :
                  LET items == InlinedItems(log[k].childContent, S)
                      file == getCodeFiles(S)[1][2]
                  IN IF Inlinable(file)
                     THEN /\ Cardinality(items) = 1
                          /\ \A j \in items :
                                ContainsFenced(log[k].childContent[j].content, file.content)
                     ELSE items = {}

\* the generator ran for a directory with two single-file subdirectories: the
\* file of one was inlined, the file of the other could not be
C7_Witness ==
    \E k \in GenerateEvents, S, T \in Dirs :
        /\ fs.parent[S] = log[k].directory /\ fs.parent[T] = log[k].directory
        /\ SingleFileDirectory(S) /\ SingleFileDirectory(T)
        /\ Inlinable(getCodeFiles(S)[1][2])
        /\ ~Inlinable(getCodeFiles(T)[1][2])
        /\ InlinedItems(log[k].childContent, S) # {}
        /\ EventsOf(S, {"skipped"}) # {} /\ EventsOf(T, {"skipped"}) # {}

\* the scenario of C8: a root with one qualifying file and one subdirectory
\* that holds one qualifying file and nothing else
OneFileRootOneFileSubdirectory ==
    /\ fs.n = 2
    /\ fs.kind = <<"plain", "plain">>
    /\ Len(getCodeFiles(1)) = 1
    /\ Len(fs.files[2]) = 1 /\ Len(getCodeFiles(2)) = 1
    /\ DOMAIN disk[2] = {}

\* what C8 says of the scenario, with n the length of the root's child content
ScenarioOutcome(n) ==
    /\ pc \in {"loop", "generate", "done"} => directories = <<2, 1>>
    /\ \A k \in EventsOf(2, OutcomeTypes) : log[k].type = "skipped"
    /\ (pc = "loop" /\ i = 1) => result = [zeroResult EXCEPT !.totalDirectories = 2]
    /\ \A k \in EventsOf(1, OutcomeTypes) : log[k].type = "generate"
    /\ \A k \in GenerateEvents :
          /\ log[k].directory = 1
          /\ log[k].isTopLevel
          /\ Len(log[k].childContent) = n
          /\ \A j \in 1..n : j \in InlinedItems(log[k].childContent, 2)
    /\ (pc = "done" /\ i = Len(directories)) => Cardinality(GenerateEvents) = 1

\* C8 as stated: in the scenario the order is [subdirectory, root], the
\* subdirectory is skipped without changing a counter, the root is eligible,
\* and the generator is invoked exactly once, for the root, as top level, with
\* a child-content list of length exactly 1 (the inlined file).
C8_ChildContentAlwaysOne ==
    OneFileRootOneFileSubdirectory => ScenarioOutcome(1)

\* C8 (amended): the same, the child-content list having length 1 when the
\* subdirectory's file is readable, not empty and within the per-file size
\* ceiling, and length 0 otherwise.
C8_ChildContentOneWhenInlinable ==
    OneFileRootOneFileSubdirectory =>
        ScenarioOutcome(IF Inlinable(fs.files[2][1]) THEN 1 ELSE 0)

\* the run of the scenario ended after one generator call that carried the
\* subdirectory's inlined file
C8_Witness ==
    /\ OneFileRootOneFileSubdirectory
    /\ Inlinable(fs.files[2][1])
    /\ pc = "done" /\ i = 2
    /\ \E k \in GenerateEvents :
          /\ log[k].llmCalled
          /\ InlinedItems(log[k].childContent, 2) = {1}

(***************************************************************************)
(* Properties of the analyzer.                                             *)
(***************************************************************************)
\* a path qualifies: its lower-cased extension is on the allow-list and is
\* not the markdown extension
Qualifies(filePath) ==
    /\ toLowerCase(filePath[2].ext) \in codeExtensions
    /\ toLowerCase(filePath[2].ext) # ".md"

\* the candidates of the analyzer's input, in input order
Candidates == SelectSeq(an.input, Qualifies)

\* C6: shouldDocument returns false when the directory has exactly one
\* qualifying file and no subdirectories; in every other case it returns true
\* exactly when there is at least one qualifying file.
C6_ShouldDocument ==
    an.decided =>
        LET count == Cardinality({k \in 1..Len(an.input) : Qualifies(an.input[k])})
        IN IF count = 1 /\ ~an.hasSubdirectories
           THEN an.should = FALSE
           ELSE an.should = (count >= 1)

\* shouldDocument accepted a directory with one qualifying file among other
\* files because it has subdirectories
C6_Witness ==
    /\ an.decided
    /\ Len(Candidates) = 1
    /\ Len(an.input) >= 3
    /\ an.hasSubdirectories
    /\ an.should

\* the file passes processFile: it can be stat-ed and read and is no larger
\* than the per-file ceiling
Processable(filePath) ==
    filePath[2].statOk /\ filePath[2].readOk /\ filePath[2].size <= maxFileSize

PathsOf(entries) == [k \in 1..Len(entries) |-> entries[k].path]

\* the entries of excludedFiles that carry the count-limit reason
CountExclusions ==
    SelectSeq(an.result.excludedFiles, LAMBDA e : e.reason = countReason)

\* the analysis took the file-count branch and never the aggregate-size check
CountBranchTaken ==
    /\ an.result.limited
    /\ Len(an.result.limitReason) = 1
    /\ an.result.limitReason[1] =
          [text |-> "Too many files", count |-> Len(Candidates),
           limit |-> maxFilesPerDirectory]

\* C9 as stated: with ceiling + k candidates (k >= 1), analyzeFiles returns
\* exactly ceiling analyzed files, exactly k exclusions with the count-limit
\* reason and limited = true, without applying the aggregate-size check.
C9_CountBranchExactlyCeiling ==
    (an.analyzed /\ Len(Candidates) > maxFilesPerDirectory) =>
        /\ Len(an.result.analyzedFiles) = maxFilesPerDirectory
        /\ Len(CountExclusions) = Len(Candidates) - maxFilesPerDirectory
        /\ CountBranchTaken

\* C9 (amended): with ceiling + k candidates (k >= 1), the analyzed files are
\* those of the first ceiling candidates that can be read and are within the
\* per-file size ceiling, in input order (at most ceiling of them); the k
\* candidates beyond the ceiling are the exclusions with the count-limit
\* reason; limited = true with the file-count reason, and the aggregate-size
\* check is not applied.
C9_CountBranchAtMostCeiling ==
    (an.analyzed /\ Len(Candidates) > maxFilesPerDirectory) =>
        LET first == SubSeq(Candidates, 1, maxFilesPerDirectory)
            rest == SubSeq(Candidates, maxFilesPerDirectory + 1, Len(Candidates))
        IN /\ PathsOf(an.result.analyzedFiles) = SelectSeq(first, Processable)
           /\ Len(an.result.analyzedFiles) <= maxFilesPerDirectory
           /\ PathsOf(CountExclusions) = rest
           /\ Len(CountExclusions) = Len(Candidates) - maxFilesPerDirectory
           /\ CountBranchTaken

\* an analysis of ceiling + 2 candidates of which one of the first ceiling is
\* too large: fewer than ceiling files were analyzed
C9_Witness ==
    /\ an.analyzed
    /\ Len(Candidates) = maxFilesPerDirectory + 2
    /\ Len(CountExclusions) = 2
    /\ Len(an.result.analyzedFiles) = maxFilesPerDirectory - 1
    /\ \E k \in 1..maxFilesPerDirectory : Candidates[k][2].size > maxFileSize

\* C10: no file whose extension is .md (in any letter case) is in
\* analyzedFiles, and every such file of the input is in excludedFiles.
C10_MarkdownNeverAnalyzed ==
    an.analyzed =>
        /\ \A k \in 1..Len(an.result.analyzedFiles) :
              toLowerCase(an.result.analyzedFiles[k].path[2].ext) # ".md"
        /\ \A k \in 1..Len(an.input) :
              toLowerCase(an.input[k][2].ext) = ".md" =>
                  \E e \in 1..Len(an.result.excludedFiles) :
                      an.result.excludedFiles[e].path = an.input[k]

\* an analysis of code files together with README.md and NOTES.MD
C10_Witness ==
    /\ an.analyzed
    /\ \E a, b \in 1..Len(an.input) :
          an.input[a][2].ext = ".md" /\ an.input[b][2].ext = ".MD"
    /\ Len(an.result.analyzedFiles) >= 1
    /\ Len(an.result.excludedFiles) = 2

(***************************************************************************)
(* Properties of the analyzer's limits.                                    *)
(***************************************************************************)
\* the input is ceiling + 1 qualifying files of 9KB each and nothing else;
\* with the configuration of the model (file-count ceiling 2, per-file
\* ceiling 10KB) these are the three 9KB files of C11
OneMoreNineKbThanCeiling ==
    /\ an.analyzed
    /\ Len(an.input) = maxFilesPerDirectory + 1
    /\ \A k \in 1..Len(an.input) :
          /\ Qualifies(an.input[k])
          /\ an.input[k][2].size = 9 * 1024
          /\ an.input[k][2].size <= maxFileSize

\* C11 as stated: on ceiling + 1 qualifying files of 9KB each analyzeFiles
\* returns limited = true through the aggregate-size branch (size-based
\* limitReason, aggregate ceiling = file-count ceiling x per-file ceiling) and
\* has analyzed exactly ceiling files.
C11_LimitedThroughSizeBranch ==
    OneMoreNineKbThanCeiling =>
        /\ an.result.limited
        /\ Len(an.result.limitReason) = 1
        /\ an.result.limitReason[1].text = "Total size exceeds limit"
        /\ an.result.limitReason[1].limitKb = maxFilesPerDirectory * maxFileSizeKb
        /\ Len(an.result.analyzedFiles) = maxFilesPerDirectory

\* C11 (amended): on ceiling + 1 qualifying files of 9KB each analyzeFiles
\* returns limited = true through the file-count branch (count-based
\* limitReason naming the count and the ceiling); it has analyzed exactly the
\* first ceiling files, the last file is excluded with the count-limit reason,
\* and the aggregate size never exceeds the aggregate ceiling.
C11_LimitedThroughCountBranch ==
    OneMoreNineKbThanCeiling =>
        /\ an.result.limited
        /\ an.result.limitReason =
              <<[text |-> "Too many files", count |-> maxFilesPerDirectory + 1,
                 limit |-> maxFilesPerDirectory]>>
        /\ PathsOf(an.result.analyzedFiles) = SubSeq(an.input, 1, maxFilesPerDirectory)
        /\ an.result.excludedFiles =
              <<[path |-> an.input[maxFilesPerDirectory + 1], reason |-> countReason]>>
        /\ an.result.totalSize = maxFilesPerDirectory * 9 * 1024
        /\ an.result.totalSize <= maxFilesPerDirectory * maxFileSizeKb * 1024

\* three files of 9KB each were analyzed under a file-count ceiling of 2 and
\* a per-file ceiling of 10KB
C11_Witness ==
    /\ OneMoreNineKbThanCeiling
    /\ Len(an.input) = 3
    /\ maxFileSizeKb = 10
    /\ an.result.totalSize = 18 * 1024

\* the exclusions caused by a directory-wide limit: the file-count reason is
\* the only one analyzeFiles attaches for such a limit
DirectoryWideExclusions ==
    {e \in 1..Len(an.result.excludedFiles) :
        an.result.excludedFiles[e].reason = countReason}

\* the exclusions caused by the file itself: size, read error or markdown
PerFileExclusions ==
    {e \in 1..Len(an.result.excludedFiles) :
        an.result.excludedFiles[e].reason.text \in
            {"File size exceeds limit", "Error reading file",
             "Markdown file excluded from code analysis"}}

\* C12: in every AnalysisResult returned by analyzeFiles, limited = true if
\* and only if excludedFiles holds at least one entry caused by a
\* directory-wide limit; per-file size, read-error and markdown exclusions
\* alone leave limited = false.
C12_LimitedIffDirectoryWideExclusion ==
    an.analyzed =>
        /\ an.result.limited <=> DirectoryWideExclusions # {}
        /\ DirectoryWideExclusions \cup PerFileExclusions =
              1..Len(an.result.excludedFiles)

\* an analysis that excluded an oversize file, an unreadable file and a
\* markdown file and is not limited
C12_Witness ==
    /\ an.analyzed
    /\ ~an.result.limited
    /\ Cardinality(PerFileExclusions) = 3
    /\ \E e \in PerFileExclusions :
          an.result.excludedFiles[e].reason.text = "File size exceeds limit"
    /\ \E e \in PerFileExclusions :
          an.result.excludedFiles[e].reason.text = "Error reading file"
    /\ \E e \in PerFileExclusions :
          an.result.excludedFiles[e].reason = markdownReason

(***************************************************************************)
(* Properties of the driver's outcomes and counters.                       *)
(***************************************************************************)
\* the step appended events to the history, the last of them of one of types
StepEnds(types) ==
    /\ Len(log') > Len(log)
    /\ log'[Len(log')].type \in types

\* the four generation counters are left as they are by the step
GenerationCountersUnchanged ==
    /\ result'.successfulGenerations = result.successfulGenerations
    /\ result'.failedGenerations = result.failedGenerations
    /\ result'.updatedGenerations = result.updatedGenerations
    /\ result'.skippedGenerations = result.skippedGenerations

\* the directory the loop is about to visit has a limited analysis
NextDirectoryLimited ==
    /\ pc = "loop"
    /\ i < Len(directories)
    /\ analyzeFiles(getCodeFiles(directories[i + 1])).limited

\* C13: a visit to a directory whose analysis is limited never invokes the
\* generator and changes none of successfulGenerations, failedGenerations,
\* updatedGenerations, skippedGenerations; unless the progress sink or the
\* file write throws, it writes the fallback report into the directory,
\* increments fallbackFiles by one and moves on to the next directory.
C13_LimitedGoesToFallback ==
    [][NextDirectoryLimited =>
          /\ pc' # "generate"
          /\ GenerationCountersUnchanged
          /\ StepEnds({"fallback", "fallback threw", "progress threw"})
          /\ StepEnds({"fallback"}) =>
                LET d == directories[i + 1]
                    written == disk'[d][call.tool.config.fallbackFilename]
                IN /\ Len(written) = 1
                   /\ written[1].reason = analyzeFiles(getCodeFiles(d)).limitReason
                   /\ \A e \in directories[i + 1] + 1..Len(disk) : disk'[e] = disk[e]
                   /\ \A e \in 1..(d - 1) : disk'[e] = disk[e]
                   /\ result'.fallbackFiles = result.fallbackFiles + 1
                   /\ i' = i + 1
                   /\ pc' = "loop"]_vars

\* a run wrote a fallback report for a subdirectory and went on to invoke the
\* generator for the root
C13_Witness ==
    /\ pc = "generate"
    /\ req.directoryPath = rootPath
    /\ result.fallbackFiles = 1
    /\ \E k \in 1..Len(log) :
          /\ log[k].type = "fallback"
          /\ log[k].analysisResult.limited
          /\ call.tool.config.fallbackFilename \in DOMAIN disk[log[k].directory]
    /\ GenerateEvents = {}

\* C14: updatedGenerations and skippedGenerations count successful outcomes
\* only: in every state of a run updatedGenerations + skippedGenerations <=
\* successfulGenerations, and a failed generation increments neither.
C14_UpdatedAndSkippedWithinSuccesses ==
    /\ result.updatedGenerations + result.skippedGenerations
          <= result.successfulGenerations
    /\ result.updatedGenerations + result.skippedGenerations =
          Cardinality({k \in GenerateEvents :
                          /\ log[k].res.success
                          /\ log[k].res.skipped \/ log[k].res.isUpdate})

\* a server run in which the only generator call failed on a directory that
\* already held the artifact and was counted as an update
C14_FailedCountedAsUpdated ==
    /\ call.via = "server"
    /\ Cardinality(GenerateEvents) = 1
    /\ \A k \in GenerateEvents : ~log[k].res.success /\ log[k].existed /\ ~log[k].wrote
    /\ result.failedGenerations = 1
    /\ result.successfulGenerations = 0
    /\ result.updatedGenerations = 1

\* the step is a generator call that ended in failure: tool.generate returned
\* success = false or threw
GeneratorFails ==
    /\ pc = "generate"
    /\ StepEnds({"generate"})
    /\ ~log'[Len(log')].res.success

\* the events that record an exception escaping the loop body
AbortTypes == {"progress threw", "fallback threw"}

\* C15: when the generator fails for a directory (success = false or a thrown
\* exception), the driver increments failedGenerations by one, appends exactly
\* one error entry for that directory and goes on with the next directory of
\* the order; in a run that ends without an exception escaping the loop every
\* directory of the order has been visited.
C15_FailureIsCountedAndRunContinues ==
    /\ [][GeneratorFails =>
             /\ result'.failedGenerations = result.failedGenerations + 1
             /\ result'.successfulGenerations = result.successfulGenerations
             /\ Len(result'.errors) = Len(result.errors) + 1
             /\ SubSeq(result'.errors, 1, Len(result.errors)) = result.errors
             /\ result'.errors[Len(result'.errors)].directory = req.directoryPath
             /\ directories' = directories
             /\ i' = i + 1
             /\ pc' = "loop"]_vars
    /\ []((pc = "done" /\ \A k \in 1..Len(log) : log[k].type \notin AbortTypes) =>
             \A k \in 1..Len(directories) : Visited(directories[k]))

\* a finished run in which the generator failed for a subdirectory, once by
\* returning success = false, and then succeeded for the root
C15_Witness ==
    /\ pc = "done"
    /\ result.failedGenerations = 1
    /\ Len(result.errors) = 1
    /\ result.errors[1].directory # rootPath
    /\ result.successfulGenerations = 1
    /\ \E k \in GenerateEvents :
          log[k].directory = rootPath /\ log[k].res.success /\ log[k].wrote
    /\ \E k \in GenerateEvents : ~log[k].res.success /\ ~log[k].threw

\* the generator is about to be called by a tool with the no-overwrite policy
\* for a directory that already holds the tool's artifact
NoOverwriteAndPresent ==
    /\ pc = "generate"
    /\ ~call.tool.config.updateExisting
    /\ call.tool.config.outputFilename \in DOMAIN disk[req.directoryPath]

\* C16: with the no-overwrite policy and the artifact present, tool.generate
\* returns skipped = true, success = true and the existing artifact as
\* content, calls no LLM and writes nothing; a second call on the unchanged
\* directory returns the same outcome; and the driver counts each such
\* outcome in successfulGenerations.
C16_NoOverwriteSkipsIdempotently ==
    /\ [](NoOverwriteAndPresent =>
            \A llm \in {"ok", "error"}, writeOk \in BOOLEAN :
                LET d == req.directoryPath
                    first == generate(call.tool, disk[d], d, req.analysisResult,
                                      req.isTopLevel, req.childContent, llm, writeOk)
                    second == generate(call.tool, first.files, d, req.analysisResult,
                                       req.isTopLevel, req.childContent, llm, writeOk)
                IN /\ first.res.skipped /\ first.res.success
                   /\ first.res.content = disk[d][call.tool.config.outputFilename]
                   /\ Len(first.res.content) > 0
                   /\ ~first.llmCalled /\ ~first.wrote
                   /\ first.files = disk[d]
                   /\ second = first)
    /\ [][(NoOverwriteAndPresent /\ StepEnds({"generate"}) /\ ~log'[Len(log')].threw) =>
             /\ log'[Len(log')].res.skipped
             /\ disk' = disk
             /\ result'.successfulGenerations = result.successfulGenerations + 1]_vars

\* a run of a tool built with the no-overwrite policy skipped a directory
\* that held the artifact and counted it as a success
C16_Witness ==
    /\ call.via = "direct"
    /\ \E k \in GenerateEvents :
          /\ log[k].existed /\ log[k].res.skipped /\ log[k].res.success
          /\ ~log[k].llmCalled /\ ~log[k].wrote
          /\ log[k].res.content = disk[log[k].directory][call.tool.config.outputFilename]
    /\ result.successfulGenerations = 1
    /\ result.skippedGenerations = 1

\* the generator calls in which tool.generate returned an outcome
ReturnedOutcomes == {k \in GenerateEvents : ~log[k].threw}

\* C17 as stated: in every outcome returned by tool.generate, isUpdate = true
\* if and only if the artifact existed before the call.
C17_IsUpdateIffExisted ==
    \A k \in ReturnedOutcomes : log[k].res.isUpdate <=> log[k].existed

\* C17 (amended): in every outcome returned by tool.generate, isUpdate = true
\* if and only if the artifact existed before the call and the generation was
\* not skipped; a skipped outcome has isUpdate = false although the artifact
\* exists.
C17_IsUpdateIffExistedAndNotSkipped ==
    \A k \in ReturnedOutcomes :
        /\ log[k].res.isUpdate <=> (log[k].existed /\ ~log[k].res.skipped)
        /\ log[k].res.skipped => (log[k].existed /\ ~log[k].res.isUpdate)

\* a run with a skipped outcome on an existing artifact and a failed outcome
\* on a directory without one
C17_Witness ==
    /\ \E k \in ReturnedOutcomes :
          log[k].existed /\ log[k].res.skipped /\ ~log[k].res.isUpdate
    /\ \E k \in ReturnedOutcomes :
          ~log[k].existed /\ ~log[k].res.success /\ ~log[k].res.isUpdate

(***************************************************************************)
(* Properties of the child-content collection.                             *)
(***************************************************************************)
\* the items of a child-content list that carry an artifact of S
ArtifactItems(childContent, S) ==
    {j \in 1..Len(childContent) : childContent[j].path = S} \ InlinedItems(childContent, S)

\* the visits that collected child content, with the list they collected
CollectingEvents == {k \in 1..Len(log) : log[k].type \in {"generate", "fallback"}}

\* C18: when a directory D is processed by a tool, the subdirectory artifacts
\* in D's child content are the files named with that tool's output filename:
\* for every immediate non-ignored subdirectory S that holds such a file
\* (written earlier in the run or before it) there is one item with S as
\* provenance and the file's current text, and for a subdirectory without it
\* there is no artifact item.
C18_CollectsTheToolsOwnArtifacts ==
    \A k \in CollectingEvents :
        \A S \in Children(log[k].directory) :
            ~shouldIgnoreDir(S) =>
                LET items == ArtifactItems(log[k].childContent, S)
                    artifact == call.tool.config.outputFilename
                IN IF artifact \in DOMAIN disk[S]
                   THEN /\ Cardinality(items) = 1
                        /\ \A j \in items : log[k].childContent[j].content = disk[S][artifact]
                   ELSE items = {}

\* an autoreview run wrote review.md in a subdirectory and then called the
\* generator for the root with the subdirectory's documentation.md, left by
\* another tool, as the only artifact item
C18_OtherToolsFileCollected ==
    /\ call.via = "server"
    /\ call.tool.name = "autoreview"
    /\ \E k \in GenerateEvents, S \in Dirs :
          /\ log[k].directory = rootPath
          /\ fs.parent[S] = rootPath
          /\ \E g \in GenerateEvents : log[g].directory = S /\ log[g].wrote /\ g < k
          /\ disk[S]["review.md"] = generatedContent(S)
          /\ \A j \in 1..Len(log[k].childContent) :
                log[k].childContent[j].content # disk[S]["review.md"]
          /\ \E j \in ArtifactItems(log[k].childContent, S) :
                log[k].childContent[j].content = <<"earlier ", "documentation.md">>

(***************************************************************************)
(* Properties of the run's error handling.                                 *)
(***************************************************************************)
\* C19: if the root cannot be scanned at all (missing or unreadable), the run
\* is aborted and the returned AggregationResult holds exactly one error
\* entry, keyed by the root path.
C19_UnscannableRootIsOneError ==
    (pc = "done" /\ ~canReaddir(rootPath)) =>
        /\ Len(result.errors) = 1
        /\ result.errors[1].directory = rootPath
        /\ EventsOf(rootPath, OutcomeTypes) = {}

\* a server run on a root that cannot be listed returned a clean result: one
\* directory in the order, skipped as ineligible, and no error entry
C19_UnscannableRootReturnsCleanResult ==
    /\ pc = "done"
    /\ call.via = "server"
    /\ ~canReaddir(rootPath)
    /\ directories = <<rootPath>>
    /\ result = [zeroResult EXCEPT !.totalDirectories = 1]
    /\ EventsOf(rootPath, {"skipped"}) # {}

\* C20: an exception thrown while one directory is processed inside the loop
\* (here: by the write of the fallback file) is caught at that directory's
\* boundary: it becomes one error record for that directory and one
\* failedGenerations increment, and the rest of the order is still processed.
C20_ExceptionStaysInItsDirectory ==
    \A k \in 1..Len(log) :
        log[k].type = "fallback threw" =>
            /\ Cardinality({e \in 1..Len(result.errors) :
                               result.errors[e].directory = log[k].directory}) = 1
            /\ result.failedGenerations >= 1
            /\ pc = "done" => \A j \in 1..Len(directories) : Visited(directories[j])

\* the write of a subdirectory's fallback file failed in a server run: the
\* run ended there with one error keyed by the root, failedGenerations = 0,
\* and the root was never visited
C20_RunAbortedByFallbackWrite ==
    /\ pc = "done"
    /\ call.via = "server"
    /\ \E k \in 1..Len(log) :
          log[k].type = "fallback threw" /\ log[k].directory # rootPath
    /\ result.errors = <<[directory |-> rootPath, error |-> "Global error"]>>
    /\ result.failedGenerations = 0
    /\ ~Visited(rootPath)
    /\ i < Len(directories)


(***************************************************************************)
(* What run hands back when something failed.                              *)
(***************************************************************************)
\* the failures the run met so far that reached a catch block of the
\* aggregator: a throwing progress sink, a failed fallback write, a generator
\* that failed or threw
CaughtFailures ==
    {k \in 1..Len(log) :
        \/ log[k].type \in AbortTypes
        \/ log[k].type = "generate" /\ ~log[k].res.success}

\* every failure that reached a catch block left an entry in errors, and an
\* aborting one ended the run with a result
CaughtFailuresRecorded ==
    /\ Len(result.errors) = Cardinality(CaughtFailures)
    /\ (\E k \in CaughtFailures : log[k].type \in AbortTypes) => pc = "done"

\* C21: run always returns an AggregationResult, and whatever failed (the scan
\* of the root, the progress sink, the fallback write, the generator) is
\* recorded in the errors of that result.
C21_RunReturnsWithFailureRecorded ==
    /\ CaughtFailuresRecorded
    /\ (pc = "done" /\ ~canReaddir(rootPath)) => Len(result.errors) >= 1

\* the run was started directly, the listing of the root failed, and run has
\* returned a result whose errors are empty
C21_ScanFailureNotRecorded ==
    /\ pc = "done"
    /\ call.via = "direct"
    /\ ~canReaddir(rootPath)
    /\ result.totalDirectories = 1
    /\ result.errors = <<>>
    /\ CaughtFailures = {}


(***************************************************************************)
(* The progress sink.                                                      *)
(***************************************************************************)
\* the calls of the progress sink that returned, in the order they were made
ProgressCalls == SelectSeq(log, LAMBDA e : e.type = "progress")

\* the run was cut short by the catch block of run
Aborted == \E k \in 1..Len(log) : log[k].type \in AbortTypes

\* C22: the j-th call of the progress sink is for the j-th directory of the
\* order, with currentIndex = j and totalDirectories = the length of the
\* order (so calls come in strictly increasing currentIndex, at most one per
\* directory); every outcome of a directory comes after its progress call; and
\* a run that returns without having been aborted has made one call for every
\* directory of the order, whatever the directory's outcome.
C22_ProgressOncePerDirectory ==
    /\ LET calls == ProgressCalls
       IN \A j \in 1..Len(calls) :
             /\ j <= Len(directories)
             /\ calls[j].directory = directories[j]
             /\ calls[j].currentIndex = j
             /\ calls[j].totalDirectories = Len(directories)
    /\ \A k \in 1..Len(log) :
          log[k].type \in OutcomeTypes =>
              \E p \in 1..(k - 1) :
                  log[p].type = "progress" /\ log[p].directory = log[k].directory
    /\ (pc = "done" /\ ~Aborted) => Len(ProgressCalls) = Len(directories)

\* a run over three directories has returned: one directory was skipped as
\* ineligible, one got a fallback file, one failed in the generator, and the
\* sink was called three times
C22_Witness ==
    /\ pc = "done"
    /\ ~Aborted
    /\ Len(directories) = 3
    /\ Len(ProgressCalls) = 3
    /\ \E k \in 1..Len(log) : log[k].type = "skipped"
    /\ \E k \in 1..Len(log) : log[k].type = "fallback"
    /\ \E k \in GenerateEvents : ~log[k].res.success


(***************************************************************************)
(* The shallow listings against the scanned tree.                          *)
(***************************************************************************)
\* the paths of the subdirectories of the scanned node of d
ScannedSubdirectories(d) ==
    {scanDirectory(d).subdirectories[k].path :
        k \in 1..Len(scanDirectory(d).subdirectories)}

\* the subdirectories the child-content collector looks into
CollectorSubdirectories(d) ==
    {listSubdirs(d).subdirs[k] : k \in 1..Len(listSubdirs(d).subdirs)}

\* C23: for every directory of the order, hasSubdirectories is true exactly
\* when the scanned node of the directory is not a leaf, and the collector's
\* listing holds exactly the subdirectories of the scanned node.
C23_ShallowListingsAgreeWithScan ==
    pc \in {"loop", "generate", "done"} =>
        \A k \in 1..Len(directories) :
            LET d == directories[k]
            IN /\ hasSubdirectories(d) <=> ~scanDirectory(d).isLeaf
               /\ CollectorSubdirectories(d) = ScannedSubdirectories(d)

\* the root holds one code file and a hidden subdirectory only: the scan made
\* it a leaf, hasSubdirectories answered true, and the generator was invoked
\* for it with the hidden directory in the collector's listing
C23_HiddenSubdirectoryCounted ==
    /\ pc = "generate"
    /\ req.directoryPath = rootPath
    /\ directories = <<rootPath>>
    /\ scanDirectory(rootPath).isLeaf
    /\ hasSubdirectories(rootPath)
    /\ Len(getCodeFiles(rootPath)) = 1
    /\ \E c \in CollectorSubdirectories(rootPath) : isHiddenDir(c)


(***************************************************************************)
(* Read errors during the scan.                                            *)
(***************************************************************************)
\* the node the scan returns for a directory it could not list
emptyLeaf(d) == [path |-> d, subdirectories |-> <<>>, files |-> <<>>, isLeaf |-> TRUE]

\* d and the directories above it, up to the root
RECURSIVE AncestorsOrSelf(_)
AncestorsOrSelf(d) == IF fs.parent[d] = 0 THEN {d} ELSE {d} \cup AncestorsOrSelf(fs.parent[d])

\* the directories the scan can reach: no hidden or ignored directory and no
\* unlistable directory on the way from the root
Reachable(d) ==
    \A a \in AncestorsOrSelf(d) :
        a # rootPath => ~shouldIgnoreDir(a) /\ ~isHiddenDir(a) /\ canReaddir(fs.parent[a])

\* C24: a directory of the scanned tree that cannot be listed is an empty leaf
\* node of the tree, it is in the bottom-up order before each of its
\* ancestors, and every reachable directory (its siblings and their subtrees
\* included) is in the order as well.
C24_ReadErrorIsLocal ==
    pc = "loop" =>
        \A d \in Dirs : (Reachable(d) /\ ~canReaddir(d)) =>
            /\ scanDirectory(d) = emptyLeaf(d)
            /\ d = rootPath \/
                  \E k \in 1..Len(scanDirectory(fs.parent[d]).subdirectories) :
                      scanDirectory(fs.parent[d]).subdirectories[k] = emptyLeaf(d)
            /\ Occurrences(directories, d) # {}
            /\ \A a \in AncestorsOrSelf(d) \ {d} :
                  \A x \in Occurrences(directories, d), y \in Occurrences(directories, a) :
                      x < y
            /\ \A e \in Dirs : Reachable(e) => Occurrences(directories, e) # {}

\* the scan met an unlistable subdirectory of the root next to a listable
\* sibling that has a subdirectory of its own: all four are in the order
C24_Witness ==
    /\ pc = "loop"
    /\ \E d, s, t \in Dirs :
          /\ fs.parent[d] = rootPath /\ ~canReaddir(d) /\ Reachable(d)
          /\ fs.parent[s] = rootPath /\ canReaddir(s) /\ Reachable(s)
          /\ fs.parent[t] = s /\ Reachable(t)
          /\ {d, s, t, rootPath} \subseteq {directories[k] : k \in 1..Len(directories)}


(***************************************************************************)
(* One pass over the order.                                                *)
(***************************************************************************)
\* the three outcomes a directory can reach
FinalOutcomes == {"skipped", "fallback", "generate"}

\* no directory is taken up twice: at most one progress call, one outcome and
\* one generator call per directory, and the loop index never goes back
AtMostOnePass ==
    \A k \in 1..Len(directories) :
        /\ Cardinality(EventsOf(directories[k], {"progress", "progress threw"})) <= 1
        /\ Cardinality(EventsOf(directories[k], OutcomeTypes)) <= 1
        /\ Cardinality(EventsOf(directories[k], {"generate"})) <= 1
        /\ EventsOf(directories[k], OutcomeTypes) # {} => k <= i + 1

\* C25: no directory is taken up twice, the generator is invoked at most once
\* per directory, and when the run has returned every directory of the order
\* has reached exactly one of the outcomes skipped, fallback and generated.
C25_EveryDirectoryOneOutcome ==
    /\ AtMostOnePass
    /\ pc = "done" =>
          \A k \in 1..Len(directories) :
              Cardinality(EventsOf(directories[k], FinalOutcomes)) = 1

\* a server run has returned although the first directory of the order
\* reached none of the three outcomes (its fallback file could not be
\* written) and the directories after it were never taken up
C25_DirectoriesLeftWithoutOutcome ==
    /\ pc = "done"
    /\ call.via = "server"
    /\ Len(directories) >= 2
    /\ EventsOf(directories[1], {"fallback threw"}) # {}
    /\ EventsOf(directories[1], FinalOutcomes) = {}
    /\ \A k \in 2..Len(directories) :
          EventsOf(directories[k], FinalOutcomes \cup {"progress"}) = {}


(***************************************************************************)
(* What a failed generation leaves on disk.                                *)
(***************************************************************************)
\* C26: a generator call that ends in failure (success = false or a thrown
\* exception) leaves every file of every directory as it was: the directory's
\* own artifact, if it had one, and the artifacts of its subdirectories keep
\* their content; and only a call that asked the LLM and succeeded changes
\* the disk.
C26_FailedGenerationWritesNothing ==
    [][/\ GeneratorFails => disk' = disk
       /\ (pc = "generate" /\ disk' # disk) =>
             /\ log'[Len(log')].res.success
             /\ log'[Len(log')].llmCalled
             /\ log'[Len(log')].wrote]_vars

\* the generator wrote the artifact of a subdirectory and then failed, after
\* asking the LLM, for the root that held an earlier artifact: the earlier
\* artifact of the root and the new one of the subdirectory are both intact
C26_Witness ==
    /\ pc = "done"
    /\ \E k \in GenerateEvents :
          /\ log[k].directory = rootPath
          /\ ~log[k].res.success /\ log[k].llmCalled /\ log[k].existed
    /\ disk[rootPath][call.tool.config.outputFilename]
          = earlierFiles[call.tool.config.outputFilename]
    /\ \E k \in GenerateEvents :
          /\ log[k].directory # rootPath
          /\ log[k].wrote
          /\ disk[log[k].directory][call.tool.config.outputFilename]
                = generatedContent(log[k].directory)


(***************************************************************************)
(* Per-file exclusions of the analyzer.                                    *)
(***************************************************************************)
\* the sum of the sizes statSync reports for the files of entries
RECURSIVE SumOfSizes(_)
SumOfSizes(entries) ==
    IF entries = <<>> THEN 0
    ELSE entries[1].path[2].size + SumOfSizes(Tail(entries))

\* the reasons excludedFiles gives for filePath
ReasonsFor(filePath) ==
    {an.result.excludedFiles[k].reason :
        k \in {j \in 1..Len(an.result.excludedFiles) :
                  an.result.excludedFiles[j].path = filePath}}

\* C27: in the result of analyzeFiles, a candidate larger than the per-file
\* ceiling is in excludedFiles and not in analyzedFiles, and it was not read:
\* its exclusion never carries the read-error reason, even when reading it
\* would fail; a candidate whose stat or read fails is in excludedFiles and
\* not in analyzedFiles; and totalSize is the sum of the sizes of the files
\* of analyzedFiles.
C27_OversizeAndErrorsExcluded ==
    an.analyzed =>
        /\ \A k \in 1..Len(Candidates) :
              LET f == Candidates[k]
                  oversize == f[2].statOk /\ f[2].size > maxFileSize
                  failing == ~f[2].statOk \/ ~f[2].readOk
              IN /\ oversize =>
                       /\ ~includes(PathsOf(an.result.analyzedFiles), f)
                       /\ ReasonsFor(f) \in {{sizeReason(f[2].size)}, {countReason}}
                 /\ failing =>
                       /\ ~includes(PathsOf(an.result.analyzedFiles), f)
                       /\ ReasonsFor(f) # {}
                 /\ (failing /\ ~oversize) =>
                       ReasonsFor(f) \in {{errorReason}, {countReason}}
        /\ an.result.totalSize = SumOfSizes(an.result.analyzedFiles)

\* an analysis outside the count branch excluded an oversize file that could
\* not have been read, with the size reason, and analyzed the other candidate
C27_Witness ==
    /\ an.analyzed
    /\ ~an.result.limited
    /\ Len(Candidates) = 2
    /\ ReasonsFor(<<1, fileBigNoRead>>) = {sizeReason(fileBigNoRead.size)}
    /\ Len(an.result.analyzedFiles) = 1
    /\ an.result.totalSize = an.result.analyzedFiles[1].path[2].size
    /\ an.result.totalSize > 0


(***************************************************************************)
(* What one subdirectory contributes to its parent's child content.        *)
(***************************************************************************)
\* the driver's eligibility test on S, as the loop evaluates it
EligibleForGeneration(S) == shouldDocument(getCodeFiles(S), hasSubdirectories(S))

\* C28: in the child content collected for a directory D, every immediate
\* subdirectory S has at most one item, and an inlined item only when S was
\* not eligible for generation on its own.
C28_AtMostOneItemPerSubdirectory ==
    \A k \in CollectingEvents :
        \A S \in Children(log[k].directory) :
            /\ Cardinality({j \in 1..Len(log[k].childContent) :
                               log[k].childContent[j].path = S}) <= 1
            /\ InlinedItems(log[k].childContent, S) # {} => ~EligibleForGeneration(S)

\* a generate_documentation run generated documentation.md for a subdirectory
\* S that holds one code file and a subdirectory of its own, and then called
\* the generator for the parent with two items for S: the artifact just
\* written and the inlined file
C28_ArtifactAndInlinedItem ==
    /\ call.via = "server"
    /\ call.tool.name = "generate_documentation"
    /\ \E k \in GenerateEvents, S \in Dirs :
          /\ fs.parent[S] = log[k].directory
          /\ Len(getCodeFiles(S)) = 1
          /\ Children(S) # {}
          /\ EligibleForGeneration(S)
          /\ \E g \in GenerateEvents :
                g < k /\ log[g].directory = S /\ log[g].wrote /\ ~log[g].existed
          /\ \E j \in ArtifactItems(log[k].childContent, S) :
                log[k].childContent[j].content = generatedContent(S)
          /\ InlinedItems(log[k].childContent, S) # {}


(***************************************************************************)
(* The aggregate-size check.                                               *)
(***************************************************************************)
\* how often filePath occurs in analyzedFiles and excludedFiles together
Placements(filePath) ==
    Cardinality(Occurrences(PathsOf(an.result.analyzedFiles), filePath))
        + Cardinality(Occurrences(PathsOf(an.result.excludedFiles), filePath))

\* C29: analyzeFiles returns limited = true exactly when there are more
\* candidates than maxFilesPerDirectory; with at most that many candidates
\* totalSize is at most maxFilesPerDirectory * maxFileSizeKb * 1024, no limit
\* reason is given, and every candidate is in exactly one of analyzedFiles
\* and excludedFiles.
C29_LimitedIffTooManyCandidates ==
    an.analyzed =>
        /\ an.result.limited <=> Len(Candidates) > maxFilesPerDirectory
        /\ Len(Candidates) <= maxFilesPerDirectory =>
              /\ an.result.totalSize <= maxFilesPerDirectory * maxFileSizeKb * 1024
              /\ an.result.limitReason = <<>>
              /\ \A k \in 1..Len(Candidates) : Placements(Candidates[k]) = 1

\* as many candidates as the ceiling allows, each of exactly the per-file
\* ceiling: all analyzed, totalSize at the aggregate ceiling, not limited
C29_Witness ==
    /\ an.analyzed
    /\ Len(Candidates) = maxFilesPerDirectory
    /\ Len(an.result.analyzedFiles) = maxFilesPerDirectory
    /\ \A k \in 1..Len(Candidates) : Candidates[k][2].size = maxFileSize
    /\ an.result.totalSize = maxFilesPerDirectory * maxFileSizeKb * 1024
    /\ ~an.result.limited


(***************************************************************************)
(* Conservation of the counters.                                           *)
(***************************************************************************)
\* the entries of errors that generateContent pushed for one directory, and
\* the ones the catch block of run pushed
PerDirectoryErrors == SelectSeq(result.errors, LAMBDA e : e.error # "Global error")
GlobalErrors == SelectSeq(result.errors, LAMBDA e : e.error = "Global error")

\* directories of the order the loop has taken up / skipped as ineligible
VisitedSoFar == Cardinality({k \in 1..Len(log) : log[k].type \in {"progress", "progress threw"}})
SkippedIneligible == Cardinality({k \in 1..Len(log) : log[k].type = "skipped"})

CountedDirectories ==
    result.successfulGenerations + result.failedGenerations + result.fallbackFiles

\* C30: in every state of a run successfulGenerations + failedGenerations +
\* fallbackFiles is at most the number of directories visited so far and at
\* most totalDirectories, and failedGenerations is the number of
\* per-directory entries of errors; when the run has returned without a
\* global error, the three counters and the number of directories skipped as
\* ineligible add up to totalDirectories.
C30_CounterConservation ==
    LET counted == CountedDirectories
    IN /\ counted <= VisitedSoFar
       /\ counted <= result.totalDirectories
       /\ result.failedGenerations = Len(PerDirectoryErrors)
       /\ (pc = "done" /\ GlobalErrors = <<>>) =>
             counted + SkippedIneligible = result.totalDirectories

\* a run over three directories has returned without a global error with one
\* successful generation, one failed generation and one fallback file
C30_Witness ==
    /\ pc = "done"
    /\ GlobalErrors = <<>>
    /\ result.totalDirectories = 3
    /\ result.successfulGenerations = 1
    /\ result.failedGenerations = 1
    /\ result.fallbackFiles = 1
    /\ Len(result.errors) = 1
    /\ SkippedIneligible = 0

====
